---- MODULE Spec2Model ----
(***************************************************************************)
(* Verification model of jira_dumper.                                      *)
(*                                                                         *)
(*   jira_fetch_issues.py            scrape_project: date-window           *)
(*                                   narrowing, pagination, sorted table   *)
(*   jira_export_xml_attachments.py  main: attachment synchronisation      *)
(*   jira_export_xml.py              process_issues: manifest export       *)
(*                                                                         *)
(* Time in the discovery part is counted in ticks; a calendar day has      *)
(* TicksPerDay ticks (the source's datetime has 86400000000 microseconds   *)
(* per day).  The numeric program constants are scaled down so that the    *)
(* state space stays finite: RESULT_THRESHOLD stands for 500, PAGE_SIZE    *)
(* for 50 and InitialDays for the 180 days of the first candidate window.  *)
(***************************************************************************)
EXTENDS Integers, Sequences, FiniteSets, TLC

\* ------------------------------------------------------------------------
\* Bounds
\* ------------------------------------------------------------------------
TicksPerDay == 2
NRec == 4
MaxDay == 5
NProjects == 2
MaxShift == 1

\* Scaled program constants (jira_fetch_issues.py:27, :28, :43)
RESULT_THRESHOLD == 3
PAGE_SIZE == 2
InitialDays == 3

Days == 0..MaxDay
Ids == 1..NRec

\* ------------------------------------------------------------------------
\* Discovery: state of scrape_project
\* ------------------------------------------------------------------------
VARIABLES
    remote,         \* the project's records on the remote: id -> [day, ok]
    start_date,     \* ticks, midnight aligned (strptime of %Y-%m-%d)
    end_date,       \* ticks, midnight aligned
    pc,             \* position in scrape_project
    current_start,  \* ticks
    current_end,    \* ticks
    results_count,  \* last value of get_results_count()
    start_index,    \* pagination offset
    issue_data,     \* sequence of collected ids (key, summary, url ride along)
    project,        \* main's loop variable: the project being scraped
    csv_files,      \* the CSV files of OUTPUT_DIR: file -> [exists, rows]
    csv0,           \* history: csv_files when scrape_project was entered
    page_seen,      \* history: what the last page fetched showed: [rows, nav]
    prev_end,       \* history: end of the previous resolved window (ticks)
    covered         \* history: days queried by the resolved windows

dvars == <<remote, start_date, end_date, pc, current_start, current_end,
           results_count, start_index, issue_data, project, csv_files, csv0,
           page_seen, prev_end, covered>>

\* Attachment synchronisation: state of main (jira_export_xml_attachments.py)
VARIABLES
    dry_run,                 \* --dry-run
    force,                   \* --force
    files,                   \* the resolved manifests, in order
    disk,                    \* archive files: path -> [exists, content, mtime]
    dirs,                    \* issue keys whose attachments/<key> directory exists
    spc,                     \* position in main
    mi,                      \* index of the manifest being processed
    downloads,               \* the queue built for the current manifest
    di,                      \* index into downloads
    total_estimated_size,
    total_downloaded_files,
    total_skipped_files,
    total_downloaded_size,
    run,                     \* invocation number
    fetches,                 \* history: page.request.get calls of this invocation
    disk0,                   \* history: disk and dirs when this invocation started
    fatal,                   \* history: archive state when a fetch came back non-200
    prev                     \* history: summary of the previous invocation

svars == <<dry_run, force, files, disk, dirs, spc, mi, downloads, di,
           total_estimated_size, total_downloaded_files, total_skipped_files,
           total_downloaded_size, run, fetches, disk0, fatal, prev>>

\* Manifest export: state of process_issues (jira_export_xml.py)
VARIABLES
    issues,      \* the (key, csv_file) pairs loaded from the CSV files
    ei,          \* index of the issue the for loop is at
    epc,         \* position in process_issues
    xml_files,   \* the XML files of OUTPUT_DIR: path -> [exists, content]
    outcomes     \* history: how each attempted issue ended

evars == <<issues, ei, epc, xml_files, outcomes>>

Absent == [exists |-> FALSE, rows |-> <<>>]

\* a table left in OUTPUT_DIR by an earlier invocation
OldTable == [exists |-> TRUE, rows |-> <<1>>]

\* --project given NProjects times, with distinct keys
projects == [n \in 1..NProjects |-> n]

\* line 32: output_file = OUTPUT_DIR / f"{project}.csv"
output_fileShared(p) == 1

output_file(p) == p

\* the file scrape_project writes for the project at hand
table == csv_files[output_file(project)]

\* the record sets of the projects after the first one
LaterRecords ==
    { [i \in Ids |-> [day |-> d, ok |-> TRUE]] : d \in {1} }
        \cup { [i \in Ids |-> [day |-> (IF i < MaxDay THEN i ELSE MaxDay), ok |-> TRUE]] }

\* strftime("%Y-%m-%d"): the JQL only carries the calendar day of a datetime
Day(t) == t \div TicksPerDay

Midnight(d) == d * TicksPerDay

\* timedelta(days=180)
InitialWidth == InitialDays * TicksPerDay

\* timedelta / 2: exact division rounded half-to-even to the tick resolution
Halve(w) ==
    IF w % 2 = 0 THEN w \div 2
    ELSE IF ((w \div 2) % 2) = 0 THEN w \div 2 ELSE (w \div 2) + 1

\* The days matched by: created >= "day(cs)" AND created < "day(ce)"
QDays(cs, ce) == Day(cs)..(Day(ce) - 1)

\* Remote side of page.goto(jql): the matching records
Matches(cs, ce) == {i \in Ids : remote[i].day >= Day(cs) /\ remote[i].day < Day(ce)}

\* ORDER BY created DESC (ties on the same day broken by id, newest id first)
Newest(S) ==
    CHOOSE i \in S : \A j \in S :
        \/ remote[j].day < remote[i].day
        \/ (remote[j].day = remote[i].day /\ j <= i)

RECURSIVE OrderByCreatedDesc(_)
OrderByCreatedDesc(S) ==
    IF S = {} THEN <<>>
    ELSE LET n == Newest(S) IN <<n>> \o OrderByCreatedDesc(S \ {n})

\* The remote truncates a result list beyond the cap (spec 4.1); it still
\* reports the full match count.  The cap is taken at its tightest, the
\* threshold itself; a remote with a larger cap serves at least these rows.
RemoteCap == RESULT_THRESHOLD

ResultList(cs, ce) ==
    LET all == OrderByCreatedDesc(Matches(cs, ce))
    IN  SubSeq(all, 1, IF Len(all) > RemoteCap THEN RemoteCap ELSE Len(all))

\* get_results_count(): the total shown by the page, 0 when there is none
get_results_count(cs, ce) == Cardinality(Matches(cs, ce))

\* page.query_selector_all("tr.issuerow") at &startIndex=off
issue_rows(cs, ce, off) ==
    LET l == ResultList(cs, ce)
        hi == IF off + PAGE_SIZE > Len(l) THEN Len(l) ELSE off + PAGE_SIZE
    IN  SubSeq(l, off + 1, hi)

\* page.query_selector("a.nav-next") at &startIndex=off
nav_next(cs, ce, off) == off + PAGE_SIZE < Len(ResultList(cs, ce))

\* rows with id, key and link are kept (line 90)
RECURSIVE Collect(_)
Collect(rows) ==
    IF rows = <<>> THEN <<>>
    ELSE (IF remote[Head(rows)].ok THEN <<Head(rows)>> ELSE <<>>) \o Collect(Tail(rows))

\* issue_data.sort(key=lambda x: x[0]): stable insertion into ascending order
RECURSIVE Insert(_, _)
Insert(s, x) ==
    IF s = <<>> THEN <<x>>
    ELSE IF x < Head(s) THEN <<x>> \o s
    ELSE <<Head(s)>> \o Insert(Tail(s), x)

SortByIdMissing(s) == s

RECURSIVE SortById(_)
SortById(s) ==
    IF s = <<>> THEN <<>>
    ELSE Insert(SortById(SubSeq(s, 1, Len(s) - 1)), s[Len(s)])

\* line 43: the first candidate window of a chunk
FirstEnd(cs) == cs + InitialWidth

\* line 61: halve the range, start fixed
NarrowedEnd(cs, ce) == cs + Halve(ce - cs)

\* line 58: the count that forces a narrower window
ExceedsThresholdOffByOne(n) == n > RESULT_THRESHOLD + 1

ExceedsThreshold(n) == n > RESULT_THRESHOLD

NoPage == [rows |-> 0, nav |-> FALSE]

\* lines 99-103: the pagination goes on while the page shows a.nav-next
ContinuePagingFullOnly(rows, nav) == nav /\ Len(rows) = PAGE_SIZE

ContinuePaging(rows, nav) == nav

\* line 97: start_index += PAGE_SIZE
NextIndexSkipping(off) == off + PAGE_SIZE + 1

NextIndex(off) == off + PAGE_SIZE

\* line 106: the next chunk starts where this one ended
NextStartFixedStride(cs, ce) == cs + InitialWidth

NextStart(cs, ce) == ce

DInit ==
    /\ remote \in [Ids -> [day : Days, ok : BOOLEAN]]
    /\ Cardinality({i \in Ids : ~remote[i].ok}) <= 1
    /\ start_date = Midnight(1)
    /\ end_date \in {Midnight(2), Midnight(4), Midnight(5)}
    /\ pc = "loop"
    /\ current_start = start_date
    /\ current_end = start_date
    /\ results_count = 0
    /\ start_index = 0
    /\ issue_data = <<>>
    /\ project = projects[1]
    /\ csv_files \in {[f \in 1..NProjects |-> Absent], [f \in 1..NProjects |-> OldTable]}
    /\ csv0 = csv_files
    /\ page_seen = NoPage
    /\ prev_end = start_date
    /\ covered = {}

\* line 42-43: while current_start < end_date: current_end = current_start + 180d
OpenWindow ==
    /\ pc = "loop"
    /\ current_start < end_date
    /\ current_end' = FirstEnd(current_start)
    /\ pc' = "count"
    /\ UNCHANGED <<remote, start_date, end_date, current_start, results_count,
                   start_index, issue_data, project, csv_files, csv0,
                   prev_end, covered, page_seen>>
    /\ UNCHANGED <<svars, evars>>

\* line 42 (loop exit), 109-113: sort and write the table
WriteTable ==
    /\ pc = "loop"
    /\ ~(current_start < end_date)
    /\ issue_data' = SortById(issue_data)
    /\ csv_files' = [csv_files EXCEPT ![output_file(project)] =
                         [exists |-> TRUE, rows |-> issue_data']]
    /\ pc' = "done"
    /\ UNCHANGED <<remote, start_date, end_date, current_start, current_end,
                   results_count, start_index, project, csv0, prev_end, covered, page_seen>>
    /\ UNCHANGED <<svars, evars>>

\* line 47-57: count query, zero results: leave the narrowing loop
CountZero ==
    /\ pc = "count"
    /\ get_results_count(current_start, current_end) = 0
    /\ results_count' = 0
    /\ start_index' = 0
    /\ pc' = "page"
    /\ page_seen' = NoPage
    /\ UNCHANGED <<remote, start_date, end_date, current_start, current_end,
                   issue_data, project, csv_files, csv0, prev_end, covered>>
    /\ UNCHANGED <<svars, evars>>

\* line 47-61: count query, too many results: halve and retry
Narrow ==
    /\ pc = "count"
    /\ get_results_count(current_start, current_end) # 0
    /\ ExceedsThreshold(get_results_count(current_start, current_end))
    /\ results_count' = get_results_count(current_start, current_end)
    /\ current_end' = NarrowedEnd(current_start, current_end)
    /\ UNCHANGED <<remote, start_date, end_date, pc, current_start,
                   start_index, issue_data, project, csv_files, csv0,
                   prev_end, covered, page_seen>>
    /\ UNCHANGED <<svars, evars>>

\* line 47-64: count query within the threshold: go on to pagination
Accept ==
    /\ pc = "count"
    /\ get_results_count(current_start, current_end) # 0
    /\ ~ExceedsThreshold(get_results_count(current_start, current_end))
    /\ results_count' = get_results_count(current_start, current_end)
    /\ start_index' = 0
    /\ pc' = "page"
    /\ page_seen' = NoPage
    /\ UNCHANGED <<remote, start_date, end_date, current_start, current_end,
                   issue_data, project, csv_files, csv0, prev_end, covered>>
    /\ UNCHANGED <<svars, evars>>

\* line 69-79: a page without rows ends the pagination
PageEmpty ==
    /\ pc = "page"
    /\ issue_rows(current_start, current_end, start_index) = <<>>
    /\ pc' = "advance"
    /\ page_seen' = [rows |-> 0, nav |-> FALSE]
    /\ UNCHANGED <<remote, start_date, end_date, current_start, current_end,
                   results_count, start_index, issue_data, project, csv_files, csv0,
                   prev_end, covered>>
    /\ UNCHANGED <<svars, evars>>

\* line 69-103: a page with rows: collect, advance the offset, look for nav-next
PageRows ==
    /\ pc = "page"
    /\ issue_rows(current_start, current_end, start_index) # <<>>
    /\ issue_data' = issue_data \o Collect(issue_rows(current_start, current_end, start_index))
    /\ start_index' = NextIndex(start_index)
    /\ pc' = IF ContinuePaging(issue_rows(current_start, current_end, start_index),
                                nav_next(current_start, current_end, start_index))
             THEN "page" ELSE "advance"
    /\ page_seen' = [rows |-> Len(issue_rows(current_start, current_end, start_index)),
                     nav |-> nav_next(current_start, current_end, start_index)]
    /\ UNCHANGED <<remote, start_date, end_date, current_start, current_end,
                   results_count, project, csv_files, csv0, prev_end, covered>>
    /\ UNCHANGED <<svars, evars>>

\* line 106: current_start = current_end
Advance ==
    /\ pc = "advance"
    /\ current_start' = NextStart(current_start, current_end)
    /\ prev_end' = current_end
    /\ covered' = covered \cup QDays(current_start, current_end)
    /\ pc' = "loop"
    /\ UNCHANGED <<remote, start_date, end_date, current_end, results_count,
                   start_index, issue_data, project, csv_files, csv0, page_seen>>
    /\ UNCHANGED <<svars, evars>>

\* lines 52, 70: page.goto raises (time-out, navigation error); nothing in
\* scrape_project or main catches it and the program ends
Fail ==
    /\ pc \in {"count", "page"}
    /\ pc' = "failed"
    /\ UNCHANGED <<remote, start_date, end_date, current_start, current_end,
                   results_count, start_index, issue_data, project, csv_files, csv0,
                   prev_end, covered, page_seen>>
    /\ UNCHANGED <<svars, evars>>

\* main, lines 141-142, and scrape_project, lines 32-40: the next project
NextProject ==
    /\ pc = "done"
    /\ project < NProjects
    /\ project' = projects[project + 1]
    /\ remote' \in LaterRecords
    /\ issue_data' = <<>>
    /\ current_start' = start_date
    /\ current_end' = start_date
    /\ results_count' = 0
    /\ start_index' = 0
    /\ prev_end' = start_date
    /\ covered' = {}
    /\ csv0' = csv_files
    /\ pc' = "loop"
    /\ page_seen' = NoPage
    /\ UNCHANGED <<start_date, end_date, csv_files>>
    /\ UNCHANGED <<svars, evars>>

\* The listing as a changing remote serves it at &startIndex=off: sh records
\* were created since the first page, so every row sits sh places further
\* down, and the page renders n of its rows
ShiftedRows(cs, ce, off, sh, n) ==
    LET l == ResultList(cs, ce)
        lo == off - sh + 1
        hi == IF off - sh + n > Len(l) THEN Len(l) ELSE off - sh + n
    IN  SubSeq(l, lo, hi)

\* line 69-79 against the changing remote: a page without rows
ShiftedPageEmpty ==
    /\ pc = "page"
    /\ \E sh \in 0..MaxShift :
          /\ sh <= start_index
          /\ ShiftedRows(current_start, current_end, start_index, sh, PAGE_SIZE) = <<>>
    /\ pc' = "advance"
    /\ page_seen' = [rows |-> 0, nav |-> FALSE]
    /\ UNCHANGED <<remote, start_date, end_date, current_start, current_end,
                   results_count, start_index, issue_data, project, csv_files, csv0,
                   prev_end, covered>>
    /\ UNCHANGED <<svars, evars>>

\* line 69-103 against the changing remote: a page with rows, full or short,
\* with or without a.nav-next
ShiftedPageRows ==
    /\ pc = "page"
    /\ \E sh \in 0..MaxShift, n \in 1..PAGE_SIZE, nav \in BOOLEAN :
          LET rows == ShiftedRows(current_start, current_end, start_index, sh, n)
          IN  /\ sh <= start_index
              /\ rows # <<>>
              /\ issue_data' = issue_data \o Collect(rows)
              /\ start_index' = NextIndex(start_index)
              /\ pc' = IF ContinuePaging(rows, nav) THEN "page" ELSE "advance"
              /\ page_seen' = [rows |-> Len(rows), nav |-> nav]
    /\ UNCHANGED <<remote, start_date, end_date, current_start, current_end,
                   results_count, project, csv_files, csv0, prev_end, covered>>
    /\ UNCHANGED <<svars, evars>>

DNext ==
    \/ OpenWindow
    \/ WriteTable
    \/ CountZero
    \/ Narrow
    \/ Accept
    \/ PageEmpty
    \/ PageRows
    \/ Advance
    \/ Fail
    \/ NextProject

\* ------------------------------------------------------------------------
\* Attachment synchronisation: jira_export_xml_attachments.py, main
\*
\* File times are counted in ticks of 1/TicksPerSecond second.  The host's
\* zone is LocalOffset ticks east of UTC; zone offsets are scaled to a few
\* ticks.
\* ------------------------------------------------------------------------
TicksPerSecond == 2
LocalOffset == 0
MaxEntries == 2
MaxRuns == 2

\* created="..." attribute: missing, not in the fixed format, or a timestamp
\* given as wall-clock reading and zone offset
NoCreated == [kind |-> "none", wall |-> 0, off |-> 0]
BadCreated == [kind |-> "bad", wall |-> 0, off |-> 0]
Created1 == [kind |-> "ok", wall |-> 10, off |-> 0]
Created2 == [kind |-> "ok", wall |-> 14, off |-> 4]

\* the instant a created attribute denotes (wall clock minus its zone offset)
Instant(c) == c.wall - c.off

\* strptime(created, "%a, %d %b %Y %H:%M:%S %z") raises ValueError
StrptimeRaises(c) == c.kind # "ok"

\* mktime(strptime(created, ...)): mktime reads the broken-down time as host
\* local time; the parsed %z offset does not enter the result
mktime_strptime(c) == c.wall - LocalOffset

\* abs(existing_mtime - expected_mtime) < 1
Abs(x) == IF x < 0 THEN -x ELSE x

TimestampMatch(existing, expected) == Abs(existing - expected) < TicksPerSecond

\* attachment elements: id 0 and name "" stand for a missing attribute
MalformedEntries ==
    { [id |-> 0, name |-> "a", created |-> Created1, size |-> 1],
      [id |-> 1, name |-> "", created |-> Created1, size |-> 2],
      [id |-> 1, name |-> "a", created |-> NoCreated, size |-> 2] }

QueueableEntries ==
    { [id |-> i, name |-> "a", created |-> c, size |-> i + 1] :
        i \in {1, 2}, c \in {BadCreated, Created1, Created2} }

Entries == MalformedEntries \cup QueueableEntries

EntrySeqs == UNION { [1..n -> Entries] : n \in 0..MaxEntries }

\* a manifest: readable XML with an issue key and attachment elements, or a
\* file that is missing, unparsable or has no key
Manifest(k, es) == [readable |-> TRUE, key |-> k, atts |-> es]
Unreadable(k) == [readable |-> FALSE, key |-> k, atts |-> <<>>]

Keys == {"K1", "K2"}
Paths == Keys \X {1, 2} \X {"a"}

\* line 110: xml_path.parent / "attachments" / issue_key / f"ID-{id}__{name}"
file_path(k, e) == <<k, e.id, e.name>>

\* line 103: the URL names the attachment by id and quoted name; the remote
\* serves the same bytes for the same URL
download_url(e) == <<e.id, e.name>>
Body(url) == <<"bytes", url[1], url[2]>>

NoFile == [exists |-> FALSE, content |-> <<>>, mtime |-> 0]
OldFile(t) == [exists |-> TRUE, content |-> <<"old">>, mtime |-> t]

\* wall clock readings at which open(file_path, "wb") stamps the file
Clock == {20}

\* line 97: not name or not attachment_id or not created
MalformedCreatedUnchecked(e) == e.name = "" \/ e.id = 0

Malformed(e) == e.name = "" \/ e.id = 0 \/ e.created.kind = "none"

\* the --dry-run flag as main sees it
DryRunUnwired == FALSE

DryRun == dry_run

\* lines 89-111: what the queue loop appends to downloads
RECURSIVE Queue(_, _)
Queue(k, es) ==
    IF es = <<>> THEN <<>>
    ELSE (IF Malformed(Head(es)) \/ DryRun THEN <<>>
          ELSE << [url |-> download_url(Head(es)), path |-> file_path(k, Head(es)),
                   name |-> Head(es).name, created |-> Head(es).created,
                   size |-> Head(es).size] >>) \o Queue(k, Tail(es))

\* line 95: total_estimated_size += size, for every attachment element
RECURSIVE SizeSum(_)
SizeSum(es) == IF es = <<>> THEN 0 ELSE Head(es).size + SizeSum(Tail(es))

\* line 145: exit(1) raises SystemExit, which no handler of main catches
OnFatalStatusCaught == "file"

OnFatalStatus == "exit"

NoFatal == [hit |-> FALSE, disk |-> <<>>, dirs |-> {}, fetches |-> 0]
NoPrev == [ran |-> FALSE, normal |-> FALSE, finished |-> FALSE, counted |-> 0]

SInit ==
    /\ dry_run \in BOOLEAN
    /\ force \in BOOLEAN
    /\ \E es \in EntrySeqs, r \in BOOLEAN, second \in {0, 1, 2} :
          files = << (IF r THEN Manifest("K1", es) ELSE Unreadable("K1")) >>
                  \o (CASE second = 0 -> <<>>
                        [] second = 1 -> << Manifest("K2", << [id |-> 1, name |-> "a", created |-> Created1, size |-> 2] >>) >>
                        [] second = 2 -> << Unreadable("K2") >>)
    /\ \E f \in {NoFile, OldFile(9), OldFile(10), OldFile(12)} :
          disk = [p \in Paths |-> IF p = <<"K1", 1, "a">> THEN f ELSE NoFile]
    /\ dirs = {p[1] : p \in {q \in Paths : disk[q].exists}}
    /\ spc = "file"
    /\ mi = 1
    /\ downloads = <<>>
    /\ di = 1
    /\ total_estimated_size = 0
    /\ total_downloaded_files = 0
    /\ total_skipped_files = 0
    /\ total_downloaded_size = 0
    /\ run = 1
    /\ fetches = 0
    /\ disk0 = [disk |-> disk, dirs |-> dirs]
    /\ fatal = NoFatal
    /\ prev = NoPrev

cur == downloads[di]

\* for ... in downloads: the position after the current entry is finished
NextEntry ==
    IF di < Len(downloads)
    THEN /\ di' = di + 1
         /\ spc' = "download"
         /\ UNCHANGED <<mi, downloads>>
    ELSE /\ di' = 1
         /\ spc' = "file"
         /\ mi' = mi + 1
         /\ downloads' = <<>>

\* lines 157-160: except Exception: ... break, on to the next manifest
BreakOutIsolated ==
    IF di < Len(downloads)
    THEN /\ di' = di + 1
         /\ spc' = "download"
         /\ UNCHANGED <<mi, downloads>>
    ELSE /\ di' = 1
         /\ spc' = "file"
         /\ mi' = mi + 1
         /\ downloads' = <<>>

BreakOut ==
    /\ di' = 1
    /\ spc' = "file"
    /\ mi' = mi + 1
    /\ downloads' = <<>>

\* lines 60-64, 66-75, 164-167: a manifest that cannot be used is passed over
SkipManifest ==
    /\ spc = "file"
    /\ mi <= Len(files)
    /\ ~files[mi].readable
    /\ mi' = mi + 1
    /\ UNCHANGED <<dry_run, force, files, disk, dirs, spc, downloads, di,
                   total_estimated_size, total_downloaded_files, total_skipped_files,
                   total_downloaded_size, run, fetches, disk0, fatal, prev>>
    /\ UNCHANGED <<dvars, evars>>

\* lines 80-118: queue loop; nothing to download (dry run, no attachments,
\* or only malformed ones)
QueueOnly ==
    /\ spc = "file"
    /\ mi <= Len(files)
    /\ files[mi].readable
    /\ total_estimated_size' = total_estimated_size + SizeSum(files[mi].atts)
    /\ (DryRun \/ Queue(files[mi].key, files[mi].atts) = <<>>)
    /\ mi' = mi + 1
    /\ UNCHANGED <<dry_run, force, files, disk, dirs, spc, downloads, di,
                   total_downloaded_files, total_skipped_files,
                   total_downloaded_size, run, fetches, disk0, fatal, prev>>
    /\ UNCHANGED <<dvars, evars>>

\* lines 80-126: queue loop, then output_dir.mkdir(parents=True, exist_ok=True)
BeginDownloads ==
    /\ spc = "file"
    /\ mi <= Len(files)
    /\ files[mi].readable
    /\ total_estimated_size' = total_estimated_size + SizeSum(files[mi].atts)
    /\ ~DryRun
    /\ Queue(files[mi].key, files[mi].atts) # <<>>
    /\ downloads' = Queue(files[mi].key, files[mi].atts)
    /\ dirs' = dirs \cup {files[mi].key}
    /\ di' = 1
    /\ spc' = "download"
    /\ UNCHANGED <<dry_run, force, files, disk, mi,
                   total_downloaded_files, total_skipped_files,
                   total_downloaded_size, run, fetches, disk0, fatal, prev>>
    /\ UNCHANGED <<dvars, evars>>

\* lines 122-126: mkdir raises OSError: continue with the next manifest
MkdirFails ==
    /\ spc = "file"
    /\ mi <= Len(files)
    /\ files[mi].readable
    /\ total_estimated_size' = total_estimated_size + SizeSum(files[mi].atts)
    /\ ~DryRun
    /\ Queue(files[mi].key, files[mi].atts) # <<>>
    /\ files[mi].key \notin dirs
    /\ mi' = mi + 1
    /\ UNCHANGED <<dry_run, force, files, disk, dirs, spc, downloads, di,
                   total_downloaded_files, total_skipped_files,
                   total_downloaded_size, run, fetches, disk0, fatal, prev>>
    /\ UNCHANGED <<dvars, evars>>

\* line 131: file_path.exists() and not force
ChecksTimestamp == disk[cur.path].exists /\ ~force

\* lines 131-140: the existing file carries the expected time: skip
SkipEntry ==
    /\ spc = "download"
    /\ ChecksTimestamp
    /\ ~StrptimeRaises(cur.created)
    /\ TimestampMatch(disk[cur.path].mtime, mktime_strptime(cur.created))
    /\ total_skipped_files' = total_skipped_files + 1
    /\ NextEntry
    /\ UNCHANGED <<dry_run, force, files, disk, dirs,
                   total_estimated_size, total_downloaded_files,
                   total_downloaded_size, run, fetches, disk0, fatal, prev>>
    /\ UNCHANGED <<dvars, evars>>

\* lines 131-134, 157-160: strptime raises in the timestamp check
CheckRaises ==
    /\ spc = "download"
    /\ ChecksTimestamp
    /\ StrptimeRaises(cur.created)
    /\ BreakOut
    /\ UNCHANGED <<dry_run, force, files, disk, dirs,
                   total_estimated_size, total_downloaded_files, total_skipped_files,
                   total_downloaded_size, run, fetches, disk0, fatal, prev>>
    /\ UNCHANGED <<dvars, evars>>

\* the entry reaches page.request.get (line 142)
Fetches ==
    /\ spc = "download"
    /\ ChecksTimestamp =>
          /\ ~StrptimeRaises(cur.created)
          /\ ~TimestampMatch(disk[cur.path].mtime, mktime_strptime(cur.created))

\* lines 142-148: what handling the response does to the target file: the
\* status is checked before the file is opened for writing
AfterResponseOpenedFirst(d, e, status, now) ==
    IF status = 200
    THEN [d EXCEPT ![e.path] = [exists |-> TRUE, content |-> Body(e.url), mtime |-> now]]
    ELSE [d EXCEPT ![e.path] = [exists |-> TRUE, content |-> <<>>, mtime |-> now]]

AfterResponse(d, e, status, now) ==
    IF status = 200
    THEN [d EXCEPT ![e.path] = [exists |-> TRUE, content |-> Body(e.url), mtime |-> now]]
    ELSE d

\* lines 142-145: response.status != 200: exit(1)
FetchFatal ==
    /\ Fetches
    /\ fetches' = fetches + 1
    /\ \E now \in Clock : disk' = AfterResponse(disk, cur, 500, now)
    /\ fatal' = [hit |-> TRUE, disk |-> disk, dirs |-> dirs, fetches |-> fetches + 1]
    /\ spc' = OnFatalStatus
    /\ IF OnFatalStatus = "exit"
       THEN UNCHANGED <<mi, downloads, di>>
       ELSE /\ mi' = mi + 1
            /\ downloads' = <<>>
            /\ di' = 1
    /\ UNCHANGED <<dry_run, force, files, dirs,
                   total_estimated_size, total_downloaded_files, total_skipped_files,
                   total_downloaded_size, run, disk0, prev>>
    /\ UNCHANGED <<dvars, evars>>

\* lines 142-148: status 200, the body is written; the file carries the
\* wall-clock time of the write
FetchWrite ==
    /\ Fetches
    /\ fetches' = fetches + 1
    /\ \E now \in Clock : disk' = AfterResponse(disk, cur, 200, now)
    /\ spc' = "utime"
    /\ UNCHANGED <<dry_run, force, files, dirs, mi, downloads, di,
                   total_estimated_size, total_downloaded_files, total_skipped_files,
                   total_downloaded_size, run, disk0, fatal, prev>>
    /\ UNCHANGED <<dvars, evars>>

\* lines 142-148, 157-160: status 200, open() or write() raises; open may
\* already have created or truncated the file
FetchWriteFails ==
    /\ Fetches
    /\ fetches' = fetches + 1
    /\ \/ disk' = disk
       \/ \E now \in Clock :
             disk' = [disk EXCEPT ![cur.path] =
                         [exists |-> TRUE, content |-> <<"partial">>, mtime |-> now]]
    /\ BreakOut
    /\ UNCHANGED <<dry_run, force, files, dirs,
                   total_estimated_size, total_downloaded_files, total_skipped_files,
                   total_downloaded_size, run, disk0, fatal, prev>>
    /\ UNCHANGED <<dvars, evars>>

\* line 152: os.utime(file_path, (file_mtime, file_mtime))
utime_omitted(old, c) == old

utime(old, c) == mktime_strptime(c)

\* lines 150-156: os.utime to the created time, then count the download
SetTime ==
    /\ spc = "utime"
    /\ ~StrptimeRaises(cur.created)
    /\ disk' = [disk EXCEPT ![cur.path].mtime = utime(disk[cur.path].mtime, cur.created)]
    /\ total_downloaded_files' = total_downloaded_files + 1
    /\ total_downloaded_size' = total_downloaded_size + cur.size
    /\ NextEntry
    /\ UNCHANGED <<dry_run, force, files, dirs,
                   total_estimated_size, total_skipped_files,
                   run, fetches, disk0, fatal, prev>>
    /\ UNCHANGED <<dvars, evars>>

\* lines 151, 157-160: strptime raises after the file was written
SetTimeRaises ==
    /\ spc = "utime"
    /\ StrptimeRaises(cur.created)
    /\ BreakOut
    /\ UNCHANGED <<dry_run, force, files, disk, dirs,
                   total_estimated_size, total_downloaded_files, total_skipped_files,
                   total_downloaded_size, run, fetches, disk0, fatal, prev>>
    /\ UNCHANGED <<dvars, evars>>

\* lines 147-152: the process is interrupted (KeyboardInterrupt is no
\* Exception) after the file was written and before os.utime
Interrupt ==
    /\ spc = "utime"
    /\ spc' = "killed"
    /\ UNCHANGED <<dry_run, force, files, disk, dirs, mi, downloads, di,
                   total_estimated_size, total_downloaded_files, total_skipped_files,
                   total_downloaded_size, run, fetches, disk0, fatal, prev>>
    /\ UNCHANGED <<dvars, evars>>

\* lines 169-180: all manifests done, summary
Finish ==
    /\ spc = "file"
    /\ mi > Len(files)
    /\ spc' = "done"
    /\ UNCHANGED <<dry_run, force, files, disk, dirs, mi, downloads, di,
                   total_estimated_size, total_downloaded_files, total_skipped_files,
                   total_downloaded_size, run, fetches, disk0, fatal, prev>>
    /\ UNCHANGED <<dvars, evars>>

\* number of attachment elements that get queued in normal or force mode
RECURSIVE CountQueueable(_)
CountQueueable(fs) ==
    IF fs = <<>> THEN 0
    ELSE (IF Head(fs).readable
          THEN Cardinality({n \in 1..Len(Head(fs).atts) : ~Malformed(Head(fs).atts[n])})
          ELSE 0) + CountQueueable(Tail(fs))

\* the next invocation: main again, normal mode, same manifests, same archive
Rerun ==
    /\ spc \in {"done", "exit", "killed"}
    /\ run < MaxRuns
    /\ run' = run + 1
    /\ prev' = [ran |-> TRUE,
                normal |-> (~dry_run /\ ~force),
                finished |-> (spc = "done"),
                counted |-> total_downloaded_files + total_skipped_files]
    /\ dry_run' = FALSE
    /\ force' = FALSE
    /\ spc' = "file"
    /\ mi' = 1
    /\ downloads' = <<>>
    /\ di' = 1
    /\ total_estimated_size' = 0
    /\ total_downloaded_files' = 0
    /\ total_skipped_files' = 0
    /\ total_downloaded_size' = 0
    /\ fetches' = 0
    /\ disk0' = [disk |-> disk, dirs |-> dirs]
    /\ fatal' = NoFatal
    /\ UNCHANGED <<files, disk, dirs>>
    /\ UNCHANGED <<dvars, evars>>

SNext ==
    \/ SkipManifest
    \/ QueueOnly
    \/ BeginDownloads
    \/ MkdirFails
    \/ SkipEntry
    \/ CheckRaises
    \/ FetchFatal
    \/ FetchWrite
    \/ FetchWriteFails
    \/ SetTime
    \/ SetTimeRaises
    \/ Interrupt
    \/ Finish
    \/ Rerun

\* ------------------------------------------------------------------------
\* Specifications: the two programs run separately; each leaves the other's
\* state idle
\* ------------------------------------------------------------------------
\* ------------------------------------------------------------------------
\* Manifest export: jira_export_xml.py, process_issues
\* ------------------------------------------------------------------------
MaxIssues == 3

IssueKeys == {"K1", "K2"}

\* Path(csv_file).stem.upper(): "out/p1.csv" gives "P1"
StemUpper(csv_file) == IF csv_file = "out/p1.csv" THEN "P1" ELSE "P2"

\* load_csv_files: the (key, csv_file) pairs, rows of one CSV file
IssueLists ==
    UNION { [1..n -> {<<k, "out/p1.csv">> : k \in IssueKeys}] : n \in 0..MaxIssues }

XmlPaths == {"P1", "P2"} \X IssueKeys

\* save_xml_file: OUTPUT_DIR / project / f"{key}.xml"
xml_path(project_dir, key) == <<project_dir, key>>

\* xml_response.text() for the issue
XmlOf(key) == <<"xml", key>>

NoXml == [exists |-> FALSE, content |-> <<>>]

OldXml == [exists |-> TRUE, content |-> <<"old">>]

\* lines 42-50: save_xml_file(project, key, xml_content)
save_xml_file(fs, project_dir, key, xml_content) ==
    [fs EXCEPT ![xml_path(project_dir, key)] = [exists |-> TRUE, content |-> xml_content]]

\* lines 65-67, 71-73, 76-78, 83-85: print and continue with the next issue
OnSkipReturn == "stopped"

OnSkip == "issue"

EInit ==
    /\ issues \in IssueLists
    /\ ei = 1
    /\ epc = "issue"
    /\ xml_files \in { [q \in XmlPaths |-> NoXml],
                       [q \in XmlPaths |-> IF q[1] = "P1" THEN OldXml ELSE NoXml] }
    /\ outcomes = <<>>

EIdle ==
    /\ issues = <<>>
    /\ ei = 1
    /\ epc = "idle"
    /\ xml_files = [q \in XmlPaths |-> NoXml]
    /\ outcomes = <<>>

\* lines 62-67: response.status != 200: continue
LoadFails ==
    /\ epc = "issue"
    /\ ei <= Len(issues)
    /\ outcomes' = Append(outcomes, "load")
    /\ ei' = ei + 1
    /\ epc' = OnSkip
    /\ UNCHANGED <<issues, xml_files>>
    /\ UNCHANGED <<dvars, svars>>

\* lines 70-73: no XML export link on the page: continue
LinkMissing ==
    /\ epc = "issue"
    /\ ei <= Len(issues)
    /\ outcomes' = Append(outcomes, "link")
    /\ ei' = ei + 1
    /\ epc' = OnSkip
    /\ UNCHANGED <<issues, xml_files>>
    /\ UNCHANGED <<dvars, svars>>

\* lines 75-78: the link has no href: continue
HrefMissing ==
    /\ epc = "issue"
    /\ ei <= Len(issues)
    /\ outcomes' = Append(outcomes, "href")
    /\ ei' = ei + 1
    /\ epc' = OnSkip
    /\ UNCHANGED <<issues, xml_files>>
    /\ UNCHANGED <<dvars, svars>>

\* lines 82-85: xml_response.status != 200: continue
XmlFails ==
    /\ epc = "issue"
    /\ ei <= Len(issues)
    /\ outcomes' = Append(outcomes, "xml")
    /\ ei' = ei + 1
    /\ epc' = OnSkip
    /\ UNCHANGED <<issues, xml_files>>
    /\ UNCHANGED <<dvars, svars>>

\* lines 62-88: both responses are 200 and the link is there: save the XML
SaveXml ==
    /\ epc = "issue"
    /\ ei <= Len(issues)
    /\ xml_files' = save_xml_file(xml_files, StemUpper(issues[ei][2]), issues[ei][1],
                                  XmlOf(issues[ei][1]))
    /\ outcomes' = Append(outcomes, "saved")
    /\ ei' = ei + 1
    /\ UNCHANGED <<issues, epc>>
    /\ UNCHANGED <<dvars, svars>>

\* line 55: the for loop is exhausted
ExportDone ==
    /\ epc = "issue"
    /\ ei > Len(issues)
    /\ epc' = "done"
    /\ UNCHANGED <<issues, ei, xml_files, outcomes>>
    /\ UNCHANGED <<dvars, svars>>

ENext ==
    \/ LoadFails
    \/ LinkMissing
    \/ HrefMissing
    \/ XmlFails
    \/ SaveXml
    \/ ExportDone

vars == <<dvars, svars, evars>>

DIdle ==
    /\ remote = [i \in Ids |-> [day |-> 0, ok |-> TRUE]]
    /\ start_date = 0
    /\ end_date = 0
    /\ pc = "idle"
    /\ current_start = 0
    /\ current_end = 0
    /\ results_count = 0
    /\ start_index = 0
    /\ issue_data = <<>>
    /\ project = projects[1]
    /\ csv_files = [f \in 1..NProjects |-> Absent]
    /\ csv0 = csv_files
    /\ page_seen = NoPage
    /\ prev_end = 0
    /\ covered = {}

SIdle ==
    /\ dry_run = FALSE
    /\ force = FALSE
    /\ files = <<>>
    /\ disk = [p \in Paths |-> NoFile]
    /\ dirs = {}
    /\ spc = "idle"
    /\ mi = 1
    /\ downloads = <<>>
    /\ di = 1
    /\ total_estimated_size = 0
    /\ total_downloaded_files = 0
    /\ total_skipped_files = 0
    /\ total_downloaded_size = 0
    /\ run = 1
    /\ fetches = 0
    /\ disk0 = [disk |-> disk, dirs |-> dirs]
    /\ fatal = NoFatal
    /\ prev = NoPrev

Init == DInit /\ SIdle /\ EIdle

Next == DNext

Spec == Init /\ [][Next]_vars

\* scrape_project against a remote whose listing changes between the page
\* requests; the program runs on as long as it has a step to take
PagerRecords ==
    { [i \in Ids |-> [day |-> (IF i < NRec THEN 1 ELSE 2), ok |-> TRUE]],
      [i \in Ids |-> [day |-> 1 + (i % 2), ok |-> TRUE]],
      [i \in Ids |-> [day |-> 0, ok |-> TRUE]] }

PagerInit ==
    /\ remote \in PagerRecords
    /\ start_date = Midnight(1)
    /\ end_date \in {Midnight(2), Midnight(4)}
    /\ pc = "loop"
    /\ current_start = start_date
    /\ current_end = start_date
    /\ results_count = 0
    /\ start_index = 0
    /\ issue_data = <<>>
    /\ project = projects[1]
    /\ csv_files = [f \in 1..NProjects |-> Absent]
    /\ csv0 = csv_files
    /\ page_seen = NoPage
    /\ prev_end = start_date
    /\ covered = {}
    /\ SIdle
    /\ EIdle

PagerNext ==
    \/ OpenWindow
    \/ WriteTable
    \/ CountZero
    \/ Narrow
    \/ Accept
    \/ ShiftedPageEmpty
    \/ ShiftedPageRows
    \/ Advance

PagerSpec == PagerInit /\ [][PagerNext]_vars /\ WF_vars(PagerNext)

SyncInit == SInit /\ DIdle /\ EIdle

SyncNext == SNext

SyncSpec == SyncInit /\ [][SyncNext]_vars

ExportInit == EInit /\ DIdle /\ SIdle

ExportNext == ENext

ExportSpec == ExportInit /\ [][ExportNext]_vars

\* ------------------------------------------------------------------------
\* Discovery: properties
\* ------------------------------------------------------------------------
InSpan(i) == start_date <= Midnight(remote[i].day) /\ Midnight(remote[i].day) < end_date

InTable(i) == table.exists /\ \E k \in 1..Len(table.rows) : table.rows[k] = i

NoHeavyDay ==
    \A d \in Days : Cardinality({i \in Ids : remote[i].day = d}) <= RESULT_THRESHOLD

\* C1: with an unchanging remote in which no calendar day holds more than
\* RESULT_THRESHOLD records, once scrape_project has finished every record
\* with start <= created < end whose row carries id, key and link is in
\* the written table.
C1_DiscoveryComplete ==
    (pc = "done" /\ NoHeavyDay) =>
        \A i \in Ids : (InSpan(i) /\ remote[i].ok) => InTable(i)

\* the span held more records than one query may return, and all were found
C1_Witness ==
    /\ pc = "done"
    /\ NoHeavyDay
    /\ Cardinality({i \in Ids : InSpan(i) /\ remote[i].ok}) > RESULT_THRESHOLD
    /\ \A i \in Ids : (InSpan(i) /\ remote[i].ok) => InTable(i)

\* C2: the union of the queried windows equals the span exactly: no queried
\* window reaches past end_date and the windows resolved by the end of the
\* run cover exactly the days of [start_date, end_date).
C2_ExactCover ==
    /\ pc \in {"count", "page", "advance"} => current_end <= end_date
    /\ pc = "done" => covered = QDays(start_date, end_date)

\* C3: the first window starts at start_date and every later window starts
\* exactly where the previous one ended, accepted or discarded; the days
\* queried by the resolved windows form one gapless run from start_date and
\* the window being resolved shares no day with them.
C3_Contiguous ==
    /\ current_start = prev_end
    /\ covered = QDays(start_date, prev_end)
    /\ pc \in {"count", "page", "advance"} =>
           QDays(current_start, current_end) \cap covered = {}

\* a window with matches is being paginated after a discarded, empty one
C3_Witness ==
    /\ pc = "page"
    /\ results_count > 0
    /\ covered # {}
    /\ issue_data = <<>>
    /\ start_index = 0
    /\ \A i \in Ids : remote[i].ok

\* C4: every window whose pages are collected had, at its last count query,
\* a reported match count of at most RESULT_THRESHOLD (the code accepts no
\* window above the threshold, so no flagged exception ever occurs).
C4_CountBound ==
    pc \in {"page", "advance"} =>
        /\ results_count = get_results_count(current_start, current_end)
        /\ results_count <= RESULT_THRESHOLD

\* a narrowed window is paginated with a count right at the threshold
C4_Witness ==
    /\ pc = "page"
    /\ results_count = RESULT_THRESHOLD
    /\ current_end - current_start < InitialWidth

\* C5: the rows of the written table are in ascending id order.
C5_SortedTable ==
    pc = "done" =>
        /\ table.exists
        /\ \A k \in 1..(Len(table.rows) - 1) : table.rows[k] <= table.rows[k + 1]

\* two rows arrived in descending id order (the larger id lies in an earlier
\* window) and both are in the table
C5_Witness ==
    /\ pc = "done"
    /\ \E i, j \in Ids :
          /\ i < j
          /\ InTable(i) /\ InTable(j)
          /\ remote[i].day >= remote[j].day + InitialDays

\* ------------------------------------------------------------------------
\* Attachment synchronisation: properties
\* ------------------------------------------------------------------------
\* the entries of every manifest that get queued carry distinct ids
DistinctIds ==
    \A m \in 1..Len(files) : \A p, q \in 1..Len(files[m].atts) :
        (p # q /\ ~Malformed(files[m].atts[p]) /\ ~Malformed(files[m].atts[q]))
            => files[m].atts[p].id # files[m].atts[q].id

RECURSIVE EstimateOf(_)
EstimateOf(fs) ==
    IF fs = <<>> THEN 0
    ELSE (IF Head(fs).readable THEN SizeSum(Head(fs).atts) ELSE 0) + EstimateOf(Tail(fs))

\* C6 as stated: after a normal-mode sync of manifests with distinct ids in
\* which every fetch succeeded, a second normal-mode sync performs zero
\* fetches, leaves the archive unchanged and counts every well-formed entry
\* as skipped.
C6_IdempotentAfterFetchSuccess ==
    (run = 2 /\ prev.normal /\ prev.finished /\ DistinctIds) =>
        /\ fetches = 0
        /\ disk = disk0.disk
        /\ dirs = disk0.dirs
        /\ spc = "done" => total_skipped_files = CountQueueable(files)

\* C6 (amended): after a normal-mode sync of manifests with distinct ids in
\* which every well-formed entry was counted as downloaded or skipped, a
\* second normal-mode sync performs zero fetches, leaves files, contents and
\* modification times unchanged and counts every well-formed entry as
\* skipped.
C6_Idempotent ==
    (run = 2 /\ prev.normal /\ prev.finished /\ DistinctIds
       /\ prev.counted = CountQueueable(files)) =>
        /\ fetches = 0
        /\ disk = disk0.disk
        /\ dirs = disk0.dirs
        /\ spc = "done" => total_skipped_files = CountQueueable(files)

\* the second run ended having skipped two entries, one of which the first
\* run had downloaded
C6_Witness ==
    /\ run = 2
    /\ spc = "done"
    /\ prev.normal /\ prev.finished /\ DistinctIds
    /\ prev.counted = CountQueueable(files)
    /\ total_skipped_files >= 2
    /\ \E p \in Paths : disk[p].exists /\ disk[p].content # <<"old">>

\* C7: once a fetch has come back with a non-success status, no further
\* fetch is issued in the invocation (for the rest of the queue or for any
\* later manifest) and the archive stays as it was before that fetch.
C7_FailFast ==
    fatal.hit =>
        /\ fetches = fatal.fetches
        /\ disk = fatal.disk
        /\ dirs = fatal.dirs

\* the fetch failed after an earlier download, with another manifest waiting
C7_Witness ==
    /\ fatal.hit
    /\ total_downloaded_files >= 1
    /\ mi < Len(files)
    /\ files[mi + 1].readable

\* C8: whenever an entry is counted as downloaded, its file holds the
\* fetched bytes and its modification time is within 1 second of the
\* instant its createdAt denotes.
C8_Fidelity ==
    [][total_downloaded_files' = total_downloaded_files + 1 =>
          /\ disk'[cur.path].content = Body(cur.url)
          /\ Abs(disk'[cur.path].mtime - Instant(cur.created)) < TicksPerSecond]_vars

\* the skip condition of the claim for the entry at the head of the queue
\* ("within 1 second" read as a difference of less than one second)
ShouldSkip ==
    /\ ~force
    /\ disk[cur.path].exists
    /\ Abs(disk[cur.path].mtime - Instant(cur.created)) < TicksPerSecond

\* C9: a queued entry with a createdAt in the fixed format is skipped (no
\* fetch, file untouched, counted as skipped) exactly when the mode is
\* normal, the target exists and its modification time is within 1 second
\* of createdAt; otherwise it is fetched.
C9_Decision ==
    [][(spc = "download" /\ cur.created.kind = "ok") =>
          IF ShouldSkip
          THEN /\ total_skipped_files' = total_skipped_files + 1
               /\ fetches' = fetches
               /\ disk' = disk
          ELSE /\ fetches' = fetches + 1
               /\ total_skipped_files' = total_skipped_files]_vars

\* C10: in dry-run mode nothing is fetched, no directory or file is created
\* or changed, nothing is counted as downloaded or skipped; only the size
\* estimate is accumulated.
C10_DryRunNoEffect ==
    dry_run =>
        /\ fetches = 0
        /\ disk = disk0.disk
        /\ dirs = disk0.dirs
        /\ total_downloaded_files = 0
        /\ total_skipped_files = 0
        /\ total_downloaded_size = 0
        /\ spc = "done" => total_estimated_size = EstimateOf(files)

\* a dry run ended over a manifest with an entry whose target is absent and
\* whose directory does not exist
C10_Witness ==
    /\ dry_run
    /\ spc = "done"
    /\ total_estimated_size > 0
    /\ \E m \in 1..Len(files) : \E n \in 1..Len(files[m].atts) :
          /\ ~Malformed(files[m].atts[n])
          /\ ~disk[file_path(files[m].key, files[m].atts[n])].exists
          /\ files[m].key \notin dirs

\* an attachment element that lacks id, name or createdAt
LacksField(e) == e.id = 0 \/ e.name = "" \/ e.created.kind = "none"

WithoutLacking(es) == SelectSeq(es, LAMBDA e : ~LacksField(e))

\* C11: an entry missing id, name or createdAt is never queued (so never
\* fetched or written), and the queue of its manifest is the queue the
\* manifest would have without that entry.
C11_MalformedIsolated ==
    spc \in {"download", "utime"} =>
        /\ downloads = Queue(files[mi].key, WithoutLacking(files[mi].atts))
        /\ \A n \in 1..Len(downloads) :
              \E k \in 1..Len(files[mi].atts) :
                  /\ ~LacksField(files[mi].atts[k])
                  /\ downloads[n].path = file_path(files[mi].key, files[mi].atts[k])
                  /\ downloads[n].created = files[mi].atts[k].created

\* the entry after a malformed one has been fetched and written
C11_Witness ==
    /\ spc = "utime"
    /\ Len(files[mi].atts) = 2
    /\ LacksField(files[mi].atts[1])
    /\ Len(downloads) = 1
    /\ disk[cur.path].content = Body(cur.url)

\* a step that ends an entry with an error other than a non-success status:
\* the entry is left without being counted and the process goes on
EntryError ==
    /\ spc \in {"download", "utime"}
    /\ spc' \notin {"utime", "exit", "killed"}
    /\ total_downloaded_files' = total_downloaded_files
    /\ total_skipped_files' = total_skipped_files

\* C12 as stated: such an error is confined to its entry; the next entry of
\* the same manifest is processed next.
C12_ErrorIsolated ==
    [][(EntryError /\ di < Len(downloads)) =>
          (spc' = "download" /\ di' = di + 1 /\ mi' = mi)]_vars

\* C12 (amended): such an error ends the processing of the entry's manifest:
\* the rest of its queue is dropped and the next manifest is taken up.
C12_ErrorStopsManifest ==
    [][EntryError => (spc' = "file" /\ mi' = mi + 1 /\ downloads' = <<>>)]_vars

\* the first of two queued entries was fetched and raised; the second was
\* neither skipped nor fetched and the run moved on to the next manifest
C12_Witness ==
    /\ run = 1
    /\ spc = "file"
    /\ mi = 2
    /\ files[1].readable
    /\ CountQueueable(<<files[1]>>) = 2
    /\ fetches = 1
    /\ ~fatal.hit
    /\ total_downloaded_files + total_skipped_files = 0

\* C13: after a run that was cut short, a normal-mode run in which every
\* well-formed entry gets skipped or downloaded ends with every well-formed
\* entry's file carrying a modification time equal to createdAt, and it
\* fetched exactly the entries it did not skip.
C13_Resume ==
    (run = 2 /\ spc = "done" /\ prev.ran /\ ~prev.finished /\ DistinctIds
       /\ total_downloaded_files + total_skipped_files = CountQueueable(files)) =>
        /\ fetches = total_downloaded_files
        /\ \A m \in 1..Len(files) : \A n \in 1..Len(files[m].atts) :
              (files[m].readable /\ ~LacksField(files[m].atts[n])) =>
                  /\ disk[file_path(files[m].key, files[m].atts[n])].exists
                  /\ Abs(disk[file_path(files[m].key, files[m].atts[n])].mtime
                         - Instant(files[m].atts[n].created)) < TicksPerSecond

\* C20: a fetch that comes back with a non-success status leaves every file
\* as it was, and a file only ever changes in a step that follows a
\* successful fetch (the write) or sets its time.
C20_FailedFetchNoEffect ==
    [][/\ (fatal'.hit /\ ~fatal.hit) => disk' = disk
       /\ disk' # disk => (spc = "utime" \/ (fetches' = fetches + 1 /\ ~fatal'.hit))]_vars

\* the failed fetch was for an entry whose target file already existed
C20_Witness ==
    /\ spc = "exit"
    /\ fatal.hit
    /\ disk[cur.path].exists

\* C15: the partitioner never narrows a window below one day: every
\* candidate and every resolved window is at least one day wide, so its
\* start is before its end.
C15_MinimumGranularity ==
    pc \in {"count", "page", "advance"} =>
        /\ current_end - current_start >= TicksPerDay
        /\ current_start < current_end

\* C19: scrape_project terminates: every resolved window moves
\* current_start strictly forward, also when one day holds more than
\* RESULT_THRESHOLD records.
C19_StartAdvances ==
    [][(pc = "advance" /\ pc' = "loop") => current_start' > current_start]_vars

\* C14: a project's table is written in one step, taken only when every
\* window of the span is resolved; until then, and when the discovery has
\* failed, every file is as it was when the project was begun, and the step
\* that writes leaves the files of the other projects alone.
C14_AllOrNothing ==
    /\ [](pc # "done" => csv_files = csv0)
    /\ [](pc = "done" =>
             \A q \in 1..NProjects : q # project => csv_files[q] = csv0[q])
    /\ [][csv_files' # csv_files =>
             (pc = "loop" /\ ~(current_start < end_date) /\ pc' = "done")]_vars

\* the second project failed after rows were collected: its old table is
\* as it was and the first project's table, written before, holds its rows
C14_Witness ==
    /\ pc = "failed"
    /\ project = 2
    /\ issue_data # <<>>
    /\ csv_files[2] = OldTable
    /\ csv_files[1].exists
    /\ Len(csv_files[1].rows) > 1

\* C16: within a window the offset starts at 0 and grows by exactly
\* PAGE_SIZE after each page with rows; the pagination ends exactly when a
\* page has no rows or shows no next-page link, so a page with fewer than
\* PAGE_SIZE rows that shows the link does not end it; and the pagination
\* of a window comes to an end.
C16_PagerRule ==
    /\ [][(pc # "page" /\ pc' = "page") => start_index' = 0]_vars
    /\ [][pc = "page" =>
             /\ page_seen'.rows = 0 => (pc' = "advance" /\ start_index' = start_index)
             /\ page_seen'.rows > 0 =>
                    /\ start_index' = start_index + PAGE_SIZE
                    /\ pc' = (IF page_seen'.nav THEN "page" ELSE "advance")]_vars
    /\ (pc = "page" ~> pc = "advance")

\* a first page with fewer than PAGE_SIZE rows showed the next-page link and
\* the pagination goes on at offset PAGE_SIZE
C16_Witness ==
    /\ pc = "page"
    /\ start_index = PAGE_SIZE
    /\ page_seen.nav
    /\ page_seen.rows > 0
    /\ page_seen.rows < PAGE_SIZE

\* C17: the written table holds at most one row per record, whatever pages
\* the pager delivered.
C17_NoDuplicateRows ==
    pc = "done" =>
        \A k1, k2 \in 1..Len(table.rows) :
            k1 # k2 => table.rows[k1] # table.rows[k2]

\* ------------------------------------------------------------------------
\* Manifest export: properties
\* ------------------------------------------------------------------------
\* C18: an issue whose page does not load, whose page has no XML export
\* link or whose XML download fails gets no file written in that attempt
\* and the loop goes on with the next issue; when process_issues returns
\* every issue of the list has been attempted.
C18_TransientSkips ==
    /\ [](epc = "done" => Len(outcomes) = Len(issues))
    /\ [][(Len(outcomes') = Len(outcomes) + 1
             /\ outcomes'[Len(outcomes')] \in {"load", "link", "xml"}) =>
               (xml_files' = xml_files /\ epc' = "issue" /\ ei' = ei + 1)]_vars

\* the first issue's XML download failed and left no file; the issue after
\* it was attempted and saved
C18_Witness ==
    /\ epc = "done"
    /\ Len(issues) >= 2
    /\ outcomes[1] = "xml"
    /\ outcomes[2] = "saved"
    /\ issues[1][1] # issues[2][1]
    /\ ~xml_files[xml_path("P1", issues[1][1])].exists
    /\ xml_files[xml_path("P1", issues[2][1])].content = XmlOf(issues[2][1])

====
